---- MODULE Spec2Model ----
(***************************************************************************)
(* Model of the cartService coupon engine: the three discount strategies   *)
(* (CartWiseHandler, ProductWiseHandler, BxGyHandler), the CartFactory     *)
(* registry and the CartService orchestration over the Redis store.        *)
(***************************************************************************)
EXTENDS Integers, Sequences, FiniteSets, TLC

(***************************************************************************)
(* JavaScript values.  An optional field that is absent reads as           *)
(* `undefined`; NaN is what Math.floor(0/0) or undefined + 1 produces;     *)
(* null is what JSON.stringify writes for NaN.  They are encoded as        *)
(* integers no amount or quantity of the bounded inputs can reach.         *)
(***************************************************************************)
undefined == 0 - 1000000
NaN == 0 - 2000000
null == 0 - 3000000

\* `x ? a : b` / `x && ...` on an optional number: undefined, null, 0 and NaN
\* are falsy
Truthy(x) == x # undefined /\ x # null /\ x # 0 /\ x # NaN

\* Math.min on two numbers (NaN if either is NaN)
MathMin(a, b) == IF a = NaN \/ b = NaN THEN NaN ELSE IF a < b THEN a ELSE b

\* a * b, a + b, a - b on JS numbers
Mul(a, b) == IF a = NaN \/ b = NaN THEN NaN ELSE a * b
Add(a, b) == IF a = NaN \/ b = NaN THEN NaN ELSE a + b
Sub(a, b) == IF a = NaN \/ b = NaN THEN NaN ELSE a - b

\* a <= 0, a < b on JS numbers (every comparison with NaN or undefined is false)
IsNum(a) == a # NaN /\ a # undefined
ToNumber(a) == IF a = null THEN 0 ELSE a
LeZero(a) == IsNum(a) /\ ToNumber(a) <= 0
Ge(a, b) == IsNum(a) /\ IsNum(b) /\ ToNumber(a) >= ToNumber(b)

(***************************************************************************)
(* Bounds of the checked inputs.                                           *)
(***************************************************************************)
MaxQty == 2
MaxItems == 2

Products == {"A", "B"}
CouponIds == {"c1", "c2", "c3"}

\* category tag of a product ("" = the item carries no category)
CategoryOf(p) == IF p = "A" THEN "Electronics" ELSE ""

(***************************************************************************)
(* Data model (product.type.ts, cart.type.ts, coupon.type.ts)              *)
(***************************************************************************)
CartItem(p, q, pr, cat) ==
    [product_id |-> p, quantity |-> q, price |-> pr, category |-> cat,
     total_discount |-> undefined, final_price |-> undefined,
     freeQuantity |-> undefined, appliedCouponIds |-> <<>>]

Cart(items, total) ==
    [items |-> items, totalAmount |-> total,
     discountedAmount |-> undefined, subTotal |-> undefined]

Percentage(v, m) == [type |-> "percentage", value |-> v, maxDiscount |-> m]
Fixed(v) == [type |-> "fixed", value |-> v, maxDiscount |-> undefined]
FreeProduct == [type |-> "freeProduct", value |-> undefined, maxDiscount |-> undefined]

CartWiseConditions(minV, maxV, minI) ==
    [minCartValue |-> minV, maxCartValue |-> maxV, minItems |-> minI]

ProductWiseConditions(ids, cats, minQ) ==
    [productIds |-> ids, categories |-> cats, minQuantity |-> minQ]

BxGyConditions(buy, get, lim) ==
    [buyProducts |-> buy, getProducts |-> get, repetitionLimit |-> lim]

BG(p, q) == [productId |-> p, quantity |-> q]

Coupon(id, type, active, expiry, limit, used, cond, dd) ==
    [id |-> id, type |-> type, isActive |-> active, expiryDate |-> expiry,
     usageLimit |-> limit, usedCount |-> used,
     conditions |-> cond, discountDetails |-> dd]

ApplicableCoupon(id, discount, type) ==
    [id |-> id, discount |-> discount, type |-> type]

(***************************************************************************)
(* Sequence helpers                                                        *)
(***************************************************************************)
RECURSIVE SumSeq(_)
SumSeq(s) == IF s = <<>> THEN 0 ELSE Add(Head(s), SumSeq(Tail(s)))

\* calculateCartTotal: sum of price * quantity over the items
calculateCartTotal(items) ==
    SumSeq([i \in 1..Len(items) |-> items[i].price * items[i].quantity])

\* Array.prototype.find on cart.items by product id: index of the first
\* item with that product id, 0 when there is none
FindItem(items, pid) ==
    IF \E i \in 1..Len(items) : items[i].product_id = pid
    THEN CHOOSE i \in 1..Len(items) :
            /\ items[i].product_id = pid
            /\ \A j \in 1..(i-1) : items[j].product_id # pid
    ELSE 0

(***************************************************************************)
(* CartWiseHandler                                                         *)
(***************************************************************************)
CartWise_calculateDiscount(cart, coupon) ==
    LET couponDiscount == coupon.discountDetails IN
    IF couponDiscount.type = "percentage"
    THEN LET calculatedDiscount == cart.totalAmount \div 100 IN
         IF Truthy(couponDiscount.maxDiscount)
         THEN MathMin(couponDiscount.maxDiscount, calculatedDiscount)
         ELSE calculatedDiscount
    ELSE IF couponDiscount.type = "fixed"
    THEN couponDiscount.value
    ELSE 0

CartWise_eligible(cart, coupon) ==
    LET conditions == coupon.conditions IN
    /\ ~ (cart.totalAmount < conditions.minCartValue)
    /\ ~ (Truthy(conditions.maxCartValue) /\ cart.totalAmount > conditions.maxCartValue)
    /\ ~ (Truthy(conditions.minItems) /\ Len(cart.items) < conditions.minItems)
    /\ ~ LeZero(CartWise_calculateDiscount(cart, coupon))

CartWise_isApplicable(cart, coupons) ==
    IF Len(cart.items) = 0 THEN <<>>
    ELSE LET ok(c) == CartWise_eligible(cart, c)
             kept == SelectSeq(coupons, ok)
         IN  [i \in 1..Len(kept) |->
                ApplicableCoupon(kept[i].id, CartWise_calculateDiscount(cart, kept[i]), "cart")]

\* variant that clamps the amount it writes to the cart total
CartWise_applyDiscount_clamped(cart, coupon) ==
    LET discount == MathMin(CartWise_calculateDiscount(cart, coupon), cart.totalAmount) IN
    [cart EXCEPT !.discountedAmount = discount,
                 !.subTotal = cart.totalAmount - discount]

CartWise_applyDiscount(cart, coupon) ==
    LET discount == CartWise_calculateDiscount(cart, coupon) IN
    [cart EXCEPT !.discountedAmount = discount,
                 !.subTotal = cart.totalAmount - discount]

(***************************************************************************)
(* ProductWiseHandler                                                      *)
(***************************************************************************)
\* variant that matches by product id only
ProductWise_isMatch_idOnly(item, conditions) ==
    item.product_id \in conditions.productIds

ProductWise_isMatch(item, conditions) ==
    LET isProductMatch == item.product_id \in conditions.productIds
        isCategoryMatch == item.category # "" /\ item.category \in conditions.categories
    IN  isProductMatch \/ isCategoryMatch

ProductWise_itemDiscount(item, discountDetails) ==
    LET itemTotal == item.price * item.quantity IN
    IF discountDetails.type = "percentage"
    THEN LET itemDiscount == (itemTotal * discountDetails.value) \div 100 IN
         IF Truthy(discountDetails.maxDiscount)
         THEN MathMin(itemDiscount, discountDetails.maxDiscount)
         ELSE itemDiscount
    ELSE IF discountDetails.type = "fixed"
    THEN discountDetails.value * item.quantity
    ELSE 0

ProductWise_calculateDiscount(cart, coupon) ==
    SumSeq([i \in 1..Len(cart.items) |->
              IF ProductWise_isMatch(cart.items[i], coupon.conditions)
              THEN ProductWise_itemDiscount(cart.items[i], coupon.discountDetails)
              ELSE 0])

ProductWise_matchedQuantity(cart, conditions) ==
    SumSeq([i \in 1..Len(cart.items) |->
              IF ProductWise_isMatch(cart.items[i], conditions)
              THEN cart.items[i].quantity ELSE 0])

ProductWise_eligible(cart, coupon) ==
    LET conditions == coupon.conditions
        hasApplicableProducts ==
            \E i \in 1..Len(cart.items) : ProductWise_isMatch(cart.items[i], conditions)
        totalQuantityOfApplicableProducts == ProductWise_matchedQuantity(cart, conditions)
    IN  /\ hasApplicableProducts
        /\ ~ (Truthy(conditions.minQuantity)
              /\ totalQuantityOfApplicableProducts < conditions.minQuantity)
        /\ ~ LeZero(ProductWise_calculateDiscount(cart, coupon))

ProductWise_isApplicable(cart, coupons) ==
    IF Len(cart.items) = 0 THEN <<>>
    ELSE LET ok(c) == ProductWise_eligible(cart, c)
             kept == SelectSeq(coupons, ok)
         IN  [i \in 1..Len(kept) |->
                ApplicableCoupon(kept[i].id, ProductWise_calculateDiscount(cart, kept[i]), "product")]

\* variant that adds the item's discount to the one already written
ProductWise_applyItem_accumulating(item, coupon) ==
    IF ProductWise_isMatch(item, coupon.conditions)
    THEN LET itemTotal == item.price * item.quantity
             itemDiscount ==
                 ProductWise_itemDiscount(item, coupon.discountDetails)
                   + (IF item.total_discount = undefined THEN 0 ELSE item.total_discount)
         IN  [item EXCEPT !.total_discount = itemDiscount,
                          !.final_price = itemTotal - itemDiscount,
                          !.appliedCouponIds = Append(@, coupon.id)]
    ELSE item

ProductWise_applyItem(item, coupon) ==
    IF ProductWise_isMatch(item, coupon.conditions)
    THEN LET itemTotal == item.price * item.quantity
             itemDiscount == ProductWise_itemDiscount(item, coupon.discountDetails)
         IN  [item EXCEPT !.total_discount = itemDiscount,
                          !.final_price = itemTotal - itemDiscount,
                          !.appliedCouponIds = Append(@, coupon.id)]
    ELSE item

ProductWise_applyDiscount(cart, coupon) ==
    LET newItems == [i \in 1..Len(cart.items) |->
                        ProductWise_applyItem(cart.items[i], coupon)]
        totalDiscount ==
            SumSeq([i \in 1..Len(cart.items) |->
                      IF ProductWise_isMatch(cart.items[i], coupon.conditions)
                      THEN newItems[i].total_discount ELSE 0])
    IN  [cart EXCEPT !.items = newItems,
                     !.discountedAmount = totalDiscount,
                     !.subTotal = cart.totalAmount - totalDiscount]

(***************************************************************************)
(* BxGyHandler                                                             *)
(***************************************************************************)
\* Math.floor(a / b) for quantities a, b >= 0: Infinity when only b is 0
\* (encoded by the caller's Math.min as "no bound"), NaN for 0 / 0
Infinity == 2000000
FloorDiv(a, b) ==
    IF b = 0 THEN (IF a = 0 THEN NaN ELSE Infinity) ELSE a \div b

\* variant that does not apply the repetition limit
BxGy_calculateBxGyParams_noLimit(cart, conditions) ==
    LET buy == conditions.buyProducts
        get == conditions.getProducts
        requiredBuyQuantity == SumSeq([i \in 1..Len(buy) |-> buy[i].quantity])
        totalBuyQuantityInCart ==
            SumSeq([i \in 1..Len(buy) |->
                      LET k == FindItem(cart.items, buy[i].productId) IN
                      IF k # 0 THEN cart.items[k].quantity ELSE 0])
        maxPossibleRepetitions == FloorDiv(totalBuyQuantityInCart, requiredBuyQuantity)
        requiredGetQuantity == SumSeq([i \in 1..Len(get) |-> get[i].quantity])
    IN  [requiredBuyQuantity |-> requiredBuyQuantity,
         totalBuyQuantityInCart |-> totalBuyQuantityInCart,
         actualRepetitions |-> maxPossibleRepetitions,
         requiredGetQuantity |-> requiredGetQuantity]

BxGy_calculateBxGyParams(cart, conditions) ==
    LET buy == conditions.buyProducts
        get == conditions.getProducts
        requiredBuyQuantity == SumSeq([i \in 1..Len(buy) |-> buy[i].quantity])
        totalBuyQuantityInCart ==
            SumSeq([i \in 1..Len(buy) |->
                      LET k == FindItem(cart.items, buy[i].productId) IN
                      IF k # 0 THEN cart.items[k].quantity ELSE 0])
        maxPossibleRepetitions == FloorDiv(totalBuyQuantityInCart, requiredBuyQuantity)
        actualRepetitions == MathMin(maxPossibleRepetitions, conditions.repetitionLimit)
        requiredGetQuantity == SumSeq([i \in 1..Len(get) |-> get[i].quantity])
    IN  [requiredBuyQuantity |-> requiredBuyQuantity,
         totalBuyQuantityInCart |-> totalBuyQuantityInCart,
         actualRepetitions |-> actualRepetitions,
         requiredGetQuantity |-> requiredGetQuantity]

\* variant of the loop that also caps an entry's free quantity by the
\* quantity the entry declares
RECURSIVE BxGy_calcLoop_entryCap(_, _, _, _, _)
BxGy_calcLoop_entryCap(items, get, k, remainingFreeQuantity, totalDiscount) ==
    IF k > Len(get) \/ remainingFreeQuantity = 0 THEN totalDiscount
    ELSE LET idx == FindItem(items, get[k].productId) IN
         IF idx = 0
         THEN BxGy_calcLoop_entryCap(items, get, k + 1, remainingFreeQuantity, totalDiscount)
         ELSE LET freeQuantity ==
                      MathMin(get[k].quantity,
                              MathMin(items[idx].quantity, remainingFreeQuantity))
              IN  BxGy_calcLoop_entryCap(items, get, k + 1,
                                         Sub(remainingFreeQuantity, freeQuantity),
                                         Add(totalDiscount, Mul(freeQuantity, items[idx].price)))

\* the loop over conditions.getProducts of calculateDiscount, from entry k
RECURSIVE BxGy_calcLoop(_, _, _, _, _)
BxGy_calcLoop(items, get, k, remainingFreeQuantity, totalDiscount) ==
    IF k > Len(get) \/ remainingFreeQuantity = 0 THEN totalDiscount
    ELSE LET idx == FindItem(items, get[k].productId) IN
         IF idx = 0
         THEN BxGy_calcLoop(items, get, k + 1, remainingFreeQuantity, totalDiscount)
         ELSE LET freeQuantity == MathMin(items[idx].quantity, remainingFreeQuantity) IN
              BxGy_calcLoop(items, get, k + 1,
                            Sub(remainingFreeQuantity, freeQuantity),
                            Add(totalDiscount, Mul(freeQuantity, items[idx].price)))

\* the free quantity the loop over conditions.getProducts counts for product
\* pid, from entry k: the sum of freeQuantity over the entries naming pid
RECURSIVE BxGy_freeLoop(_, _, _, _, _)
BxGy_freeLoop(items, get, k, remainingFreeQuantity, pid) ==
    IF k > Len(get) \/ remainingFreeQuantity = 0 THEN 0
    ELSE LET idx == FindItem(items, get[k].productId) IN
         IF idx = 0
         THEN BxGy_freeLoop(items, get, k + 1, remainingFreeQuantity, pid)
         ELSE LET freeQuantity == MathMin(items[idx].quantity, remainingFreeQuantity) IN
              Add(IF get[k].productId = pid THEN freeQuantity ELSE 0,
                  BxGy_freeLoop(items, get, k + 1,
                                Sub(remainingFreeQuantity, freeQuantity), pid))

\* the freeQuantity the loop over conditions.getProducts computes for each
\* entry, from entry k: undefined for an entry whose product is not in the
\* cart and for the entries after the loop has stopped
RECURSIVE BxGy_grantLoop(_, _, _, _)
BxGy_grantLoop(items, get, k, remainingFreeQuantity) ==
    IF k > Len(get) THEN <<>>
    ELSE IF remainingFreeQuantity = 0
    THEN <<undefined>> \o BxGy_grantLoop(items, get, k + 1, remainingFreeQuantity)
    ELSE LET idx == FindItem(items, get[k].productId) IN
         IF idx = 0
         THEN <<undefined>> \o BxGy_grantLoop(items, get, k + 1, remainingFreeQuantity)
         ELSE LET freeQuantity == MathMin(items[idx].quantity, remainingFreeQuantity) IN
              <<freeQuantity>>
                \o BxGy_grantLoop(items, get, k + 1,
                                  Sub(remainingFreeQuantity, freeQuantity))

\* the free quantity calculateDiscount and applyDiscount count for product pid
BxGy_freeCounted(cart, coupon, pid) ==
    LET conditions == coupon.conditions
        params == BxGy_calculateBxGyParams(cart, conditions)
    IN  IF params.actualRepetitions = 0 THEN 0
        ELSE BxGy_freeLoop(cart.items, conditions.getProducts, 1,
                           Mul(params.actualRepetitions, params.requiredGetQuantity), pid)

BxGy_calculateDiscount(cart, coupon) ==
    LET conditions == coupon.conditions
        params == BxGy_calculateBxGyParams(cart, conditions)
    IN  IF params.actualRepetitions = 0 THEN 0
        ELSE BxGy_calcLoop(cart.items, conditions.getProducts, 1,
                           Mul(params.actualRepetitions, params.requiredGetQuantity), 0)

BxGy_eligible(cart, coupon) ==
    LET conditions == coupon.conditions
        get == conditions.getProducts
        params == BxGy_calculateBxGyParams(cart, conditions)
        totalGetQuantityInCart ==
            SumSeq([i \in 1..Len(get) |->
                      LET k == FindItem(cart.items, get[i].productId) IN
                      IF k # 0 THEN cart.items[k].quantity ELSE 0])
        freeQuantity == MathMin(totalGetQuantityInCart,
                                Mul(params.actualRepetitions, params.requiredGetQuantity))
    IN  /\ ~ (params.totalBuyQuantityInCart < params.requiredBuyQuantity)
        /\ params.actualRepetitions # 0
        /\ freeQuantity # 0
        /\ ~ LeZero(BxGy_calculateDiscount(cart, coupon))

BxGy_isApplicable(cart, coupons) ==
    IF Len(cart.items) = 0 THEN <<>>
    ELSE LET ok(c) == BxGy_eligible(cart, c)
             kept == SelectSeq(coupons, ok)
         IN  [i \in 1..Len(kept) |->
                ApplicableCoupon(kept[i].id, BxGy_calculateDiscount(cart, kept[i]), "BxGy")]

\* the loop over conditions.getProducts of applyDiscount, from entry k;
\* yields the items as written and the accumulated totalDiscount
RECURSIVE BxGy_applyLoop(_, _, _, _, _, _)
BxGy_applyLoop(items, get, k, remainingFreeQuantity, totalDiscount, couponId) ==
    IF k > Len(get) \/ remainingFreeQuantity = 0
    THEN [items |-> items, totalDiscount |-> totalDiscount]
    ELSE LET idx == FindItem(items, get[k].productId) IN
         IF idx = 0
         THEN BxGy_applyLoop(items, get, k + 1, remainingFreeQuantity, totalDiscount, couponId)
         ELSE LET cartItem == items[idx]
                  freeQuantity == MathMin(cartItem.quantity, remainingFreeQuantity)
                  itemDiscount == Mul(freeQuantity, cartItem.price)
                  written == [cartItem EXCEPT
                                !.freeQuantity = freeQuantity,
                                !.total_discount = itemDiscount,
                                !.final_price = Sub(cartItem.quantity * cartItem.price, itemDiscount),
                                !.appliedCouponIds = Append(@, couponId)]
              IN  BxGy_applyLoop([items EXCEPT ![idx] = written], get, k + 1,
                                 Sub(remainingFreeQuantity, freeQuantity),
                                 Add(totalDiscount, itemDiscount), couponId)

BxGy_applyDiscount(cart, coupon) ==
    LET conditions == coupon.conditions
        params == BxGy_calculateBxGyParams(cart, conditions)
    IN  IF params.actualRepetitions = 0 THEN cart
        ELSE LET r == BxGy_applyLoop(cart.items, conditions.getProducts, 1,
                                     Mul(params.actualRepetitions, params.requiredGetQuantity),
                                     0, coupon.id)
             IN  [cart EXCEPT !.items = r.items,
                              !.discountedAmount = r.totalDiscount,
                              !.subTotal = Sub(cart.totalAmount, r.totalDiscount)]

(***************************************************************************)
(* CartFactory: the strategy registry                                      *)
(***************************************************************************)
\* getStrategy(type): the handler's name, "null" for an unrecognised tag
getStrategy(type) ==
    IF type = "" THEN "null"
    ELSE IF type = "cart" THEN "cartHandler"
    ELSE IF type = "product" THEN "ProductHandler"
    ELSE IF type = "BxGy" THEN "BxGyHandler"
    ELSE "null"

\* const type = coupon.type === 'Product' ? 'product' : coupon.type
typeKey(coupon) == IF coupon.type = "Product" THEN "product" ELSE coupon.type

isApplicable(strategy, cart, coupons) ==
    IF strategy = "cartHandler" THEN CartWise_isApplicable(cart, coupons)
    ELSE IF strategy = "ProductHandler" THEN ProductWise_isApplicable(cart, coupons)
    ELSE BxGy_isApplicable(cart, coupons)

calculateDiscount(strategy, cart, coupon) ==
    IF strategy = "cartHandler" THEN CartWise_calculateDiscount(cart, coupon)
    ELSE IF strategy = "ProductHandler" THEN ProductWise_calculateDiscount(cart, coupon)
    ELSE BxGy_calculateDiscount(cart, coupon)

applyDiscount(strategy, cart, coupon) ==
    IF strategy = "cartHandler" THEN CartWise_applyDiscount(cart, coupon)
    ELSE IF strategy = "ProductHandler" THEN ProductWise_applyDiscount(cart, coupon)
    ELSE BxGy_applyDiscount(cart, coupon)

\* variant of isApplicable that stores the best discount on the cart
isApplicable_cart_writes(strategy, cart, coupons) ==
    LET applicable == isApplicable(strategy, cart, coupons) IN
    IF applicable = <<>> THEN cart
    ELSE [cart EXCEPT !.discountedAmount = applicable[1].discount]

\* the cart object after isApplicable(cart, coupons): the three handlers read
\* cart.items and cart.totalAmount and assign to none of the cart's fields
isApplicable_cart(strategy, cart, coupons) == cart

\* the cart object after calculateDiscount(cart, coupon): no field is assigned
calculateDiscount_cart(strategy, cart, coupon) == cart

(***************************************************************************)
(* CartService: the Redis store and the pure parts of the orchestration    *)
(***************************************************************************)
CouponKey(id) == "coupon:" \o id

\* getCouponById's null
NoCoupon == [id |-> "null"]

\* JSON.stringify(coupon): a NaN number is written as null
JSONstringify(coupon) ==
    [coupon EXCEPT !.usedCount = IF @ = NaN THEN null ELSE @]

redisSet(store, key, value) ==
    [k \in DOMAIN store \cup {key} |-> IF k = key THEN value ELSE store[k]]

redisDel(store, key) == [k \in DOMAIN store \ {key} |-> store[k]]

getCouponById(store, id) ==
    IF CouponKey(id) \in DOMAIN store THEN store[CouponKey(id)] ELSE NoCoupon

\* coupon.expiryDate && new Date(coupon.expiryDate) < new Date()
isExpired(coupon, t) == coupon.expiryDate # undefined /\ coupon.expiryDate < t

\* coupon.usageLimit && coupon.usedCount >= coupon.usageLimit
usageLimitReached(coupon) ==
    Truthy(coupon.usageLimit) /\ Ge(coupon.usedCount, coupon.usageLimit)

\* coupon.usedCount += 1
Increment(n) ==
    IF n = undefined \/ n = NaN THEN NaN ELSE ToNumber(n) + 1

\* variant that checks the usage limit before the expiry
applyCoupon_error_usageFirst(coupon, cart, t) ==
    IF coupon = NoCoupon THEN "not found"
    ELSE IF ~ coupon.isActive THEN "not active"
    ELSE IF usageLimitReached(coupon) THEN "usage limit exceeded"
    ELSE IF isExpired(coupon, t) THEN "expired"
    ELSE IF getStrategy(typeKey(coupon)) = "null" THEN "invalid type"
    ELSE IF isApplicable(getStrategy(typeKey(coupon)), cart, <<coupon>>) = <<>>
    THEN "not applicable"
    ELSE ""

\* variant that does not re-run isApplicable on the chosen coupon
applyCoupon_error_noRecheck(coupon, cart, t) ==
    IF coupon = NoCoupon THEN "not found"
    ELSE IF ~ coupon.isActive THEN "not active"
    ELSE IF isExpired(coupon, t) THEN "expired"
    ELSE IF usageLimitReached(coupon) THEN "usage limit exceeded"
    ELSE IF getStrategy(typeKey(coupon)) = "null" THEN "invalid type"
    ELSE ""

\* the error applyCoupon throws for the coupon it read, "" when it throws none
applyCoupon_error(coupon, cart, t) ==
    IF coupon = NoCoupon THEN "not found"
    ELSE IF ~ coupon.isActive THEN "not active"
    ELSE IF isExpired(coupon, t) THEN "expired"
    ELSE IF usageLimitReached(coupon) THEN "usage limit exceeded"
    ELSE IF getStrategy(typeKey(coupon)) = "null" THEN "invalid type"
    ELSE IF isApplicable(getStrategy(typeKey(coupon)), cart, <<coupon>>) = <<>>
    THEN "not applicable"
    ELSE ""

\* variant that applies the discount before it checks applicability
applyCoupon_run_applyFirst(coupon, cart, t) ==
    LET error == applyCoupon_error(coupon, cart, t) IN
    IF coupon = NoCoupon \/ getStrategy(typeKey(coupon)) = "null"
    THEN [error |-> error, cart |-> cart, coupon |-> coupon]
    ELSE IF error # ""
    THEN [error |-> error,
          cart |-> applyDiscount(getStrategy(typeKey(coupon)), cart, coupon),
          coupon |-> coupon]
    ELSE [error |-> "",
          cart |-> applyDiscount(getStrategy(typeKey(coupon)), cart, coupon),
          coupon |-> [coupon EXCEPT !.usedCount = Increment(@)]]

\* the synchronous part of applyCoupon between the coupon read and the call of
\* updateCoupon: the checks, applyDiscount and the increment of the local copy
applyCoupon_run(coupon, cart, t) ==
    LET error == applyCoupon_error(coupon, cart, t) IN
    IF error # ""
    THEN [error |-> error, cart |-> cart, coupon |-> coupon]
    ELSE [error |-> "",
          cart |-> applyDiscount(getStrategy(typeKey(coupon)), cart, coupon),
          coupon |-> [coupon EXCEPT !.usedCount = Increment(@)]]

\* variant that lets expired coupons through
couponGate_noExpiry(coupon, t) ==
    /\ coupon.isActive
    /\ ~ usageLimitReached(coupon)

\* the filter of findApplicableCoupons
couponGate(coupon, t) ==
    /\ coupon.isActive
    /\ ~ isExpired(coupon, t)
    /\ ~ usageLimitReached(coupon)

\* Array.prototype.sort((a, b) => b.discount - a.discount): stable insertion
\* by descending discount
RECURSIVE InsertByDiscount(_, _)
InsertByDiscount(sorted, x) ==
    IF sorted = <<>> THEN <<x>>
    ELSE IF Head(sorted).discount >= x.discount
         THEN <<Head(sorted)>> \o InsertByDiscount(Tail(sorted), x)
         ELSE <<x>> \o sorted

RECURSIVE SortByDiscount(_)
SortByDiscount(list) ==
    IF list = <<>> THEN <<>>
    ELSE InsertByDiscount(SortByDiscount(SubSeq(list, 1, Len(list) - 1)), list[Len(list)])

\* the orders a sequence can be rearranged in
Permutations_(list) ==
    { [i \in 1..Len(list) |-> list[f[i]]] :
        f \in { g \in [1..Len(list) -> 1..Len(list)] :
                   \A a, b \in 1..Len(list) : a # b => g[a] # g[b] } }

\* what sort returns: the stable descending order, or, when the comparator
\* yields NaN for some pair, an order the engine is free to choose
sortOutcomes(list) ==
    IF \E i \in 1..Len(list) : list[i].discount = NaN
    THEN Permutations_(list)
    ELSE { SortByDiscount(list) }

\* findApplicableCoupons on the coupons as getAllCoupons returned them
applicableUnsorted(allCoupons, cart, t) ==
    LET gate(c) == couponGate(c, t)
        activeCoupons == SelectSeq(allCoupons, gate)
        isCart(c) == typeKey(c) = "cart"
        isProduct(c) == typeKey(c) = "product"
        isBxGy(c) == typeKey(c) = "BxGy"
    IN  CartWise_isApplicable(cart, SelectSeq(activeCoupons, isCart))
        \o ProductWise_isApplicable(cart, SelectSeq(activeCoupons, isProduct))
        \o BxGy_isApplicable(cart, SelectSeq(activeCoupons, isBxGy))

(***************************************************************************)
(* State                                                                   *)
(***************************************************************************)
VARIABLES
    redis,      \* the store: key -> stored coupon
    now,        \* the clock new Date() reads
    req,        \* the requests in flight: request -> its handler's locals
    found,      \* the response of the findApplicableCoupons call just served
    hCart,      \* strategy level: the cart handed to the handler
    hCoupon,    \* strategy level: the coupon handed to the handler
    hRan,       \* strategy level: the read-only operations that have run
    hCands,     \* strategy level: what isApplicable(cart, [coupon]) returned
    hDiscount,  \* strategy level: what calculateDiscount(cart, coupon) returned
    hParams,    \* strategy level: what calculateBxGyParams(cart, conditions) returned
    hApplied    \* strategy level: number of applyDiscount calls on the cart

svars == <<redis, now, req, found>>
hvars == <<hCart, hCoupon, hRan, hCands, hDiscount, hParams, hApplied>>
vars == <<redis, now, req, found, hCart, hCoupon, hRan, hCands, hDiscount, hParams, hApplied>>

(***************************************************************************)
(* Inputs of the service-level specifications                              *)
(***************************************************************************)
MaxTime == 2
MaxUsedCount == 2

\* the requests the server handles at the same time
Requests == {"r1", "r2"}

\* the conditions and discount a coupon of each type carries
ConditionsOf(type) ==
    IF type = "cart" THEN CartWiseConditions(100, undefined, undefined)
    ELSE IF type = "Product" THEN ProductWiseConditions({"B"}, {}, undefined)
    ELSE BxGyConditions(<<BG("A", 2)>>, <<BG("B", 1)>>, 1)

DiscountOf(type) ==
    IF type = "cart" THEN Fixed(30)
    ELSE IF type = "Product" THEN Percentage(20, undefined)
    ELSE FreeProduct

\* bodies of POST /coupons, after the route's defaults (isActive, usedCount)
CreatePool ==
    { Coupon("c1", "cart", TRUE, undefined, undefined, 0,
             ConditionsOf("cart"), DiscountOf("cart")),
      Coupon("c1", "Product", TRUE, 1, 1, 0,
             ConditionsOf("Product"), DiscountOf("Product")),
      Coupon("c1", "BxGy", TRUE, undefined, 1, 0,
             ConditionsOf("BxGy"), DiscountOf("BxGy")),
      Coupon("c1", "BxGy", FALSE, 1, 1, 1,
             ConditionsOf("BxGy"), DiscountOf("BxGy")),
      Coupon("c1", "cart", TRUE, undefined, 1, 2,
             ConditionsOf("cart"), DiscountOf("cart")) }

\* bodies of PUT /coupons/:id: every field is optional and the stored coupon
\* is replaced by the body ("" = no type, FALSE = no isActive,
\* undefined = no usedCount)
UpdatePool ==
    { Coupon("c1", "", FALSE, 1, 1, 1, ConditionsOf("cart"), DiscountOf("cart")),
      Coupon("c1", "", TRUE, 1, 1, 1, ConditionsOf("cart"), DiscountOf("cart")),
      Coupon("c1", "", TRUE, undefined, 1, 0, ConditionsOf("cart"), DiscountOf("cart")),
      Coupon("c1", "cart", TRUE, undefined, 1, undefined,
             ConditionsOf("cart"), DiscountOf("cart")) }

\* carts of POST /apply-coupon/:id and POST /applicable-coupons
CartSmall == Cart(<<CartItem("A", 1, 50, "Electronics")>>, 50)
CartFull == Cart(<<CartItem("A", 2, 50, "Electronics"), CartItem("B", 1, 200, "")>>, 300)
ServiceCarts == {CartSmall, CartFull}

NoCart == Cart(<<>>, 0)
NoFound == [served |-> FALSE, cart |-> NoCart, result |-> <<>>]
EmptyStore == [k \in {} |-> NoCoupon]

\* applied counts the applyDiscount calls made on the cart the request carries,
\* over the request and the requests whose response the cart came from
\* keys, coupons and iterations are the locals of getAllCoupons: the array KEYS
\* returned, the coupons pushed so far and the passes of its loop so far
IdleRequest ==
    [op |-> "", pc |-> "idle", id |-> "", cart0 |-> NoCart, cart |-> NoCart,
     coupon |-> NoCoupon, result |-> "", applied |-> 0,
     keys |-> <<>>, coupons |-> <<>>, iterations |-> 0]

(***************************************************************************)
(* Inputs of the strategy-level specification                              *)
(***************************************************************************)
\* unit price of a product
PriceOf(p) == IF p = "A" THEN 50 ELSE 200

ItemKinds ==
    { CartItem(p, q, PriceOf(p), CategoryOf(p)) : p \in Products, q \in 1..MaxQty }

RECURSIVE SeqsUpTo(_, _)
SeqsUpTo(S, n) ==
    IF n = 0 THEN { <<>> }
    ELSE LET shorter == SeqsUpTo(S, n - 1) IN
         shorter \cup { Append(s, x) : s \in { t \in shorter : Len(t) = n - 1 }, x \in S }

GenCarts ==
    { Cart(items, calculateCartTotal(items)) :
        items \in SeqsUpTo(ItemKinds, MaxItems) \ { <<>> } }

\* the carts of the documented scenarios (README cases 1-3, request example)
CartTotal500 == Cart(<<CartItem("B", 2, 250, "")>>, 500)
CartTotal15000 == Cart(<<CartItem("B", 3, 5000, "")>>, 15000)
CartTotal400 == Cart(<<CartItem("B", 2, 200, "")>>, 400)
CartLaptop == Cart(<<CartItem("LAPTOP_001", 1, 50000, "Electronics")>>, 50000)

CartScenarioD == Cart(<<CartItem("A", 5, 50, "Electronics"), CartItem("B", 1, 200, "")>>, 450)

ScenarioCarts == {CartTotal500, CartTotal15000, CartTotal400, CartLaptop, CartScenarioD}

Carts == GenCarts \cup ScenarioCarts

\* a stored coupon as POST /coupons creates it: active, no expiry, unused
NewCoupon(id, type, limit, cond, dd) ==
    Coupon(id, type, TRUE, undefined, limit, 0, cond, dd)

CartWiseDiscounts ==
    {Percentage(10, undefined), Percentage(20, 2000), Percentage(20, 1), Fixed(500), Fixed(30)}

CartWiseCoupons ==
    { NewCoupon("c1", "cart", undefined, CartWiseConditions(minV, maxV, minI), dd) :
        minV \in {0, 100}, maxV \in {undefined, 300, 0}, minI \in {undefined, 2},
        dd \in CartWiseDiscounts }

ProductWiseDiscounts ==
    {Percentage(20, undefined), Percentage(33, 10), Fixed(30), Fixed(100)}

ProductWiseCoupons ==
    { NewCoupon("c1", "Product", undefined, ProductWiseConditions(ids, cats, minQ), dd) :
        ids \in {{}, {"B"}}, cats \in {{}, {"Electronics"}}, minQ \in {undefined, 2},
        dd \in ProductWiseDiscounts }

BxGyCoupons ==
    { NewCoupon("c1", "BxGy", undefined, BxGyConditions(buy, get, lim), FreeProduct) :
        buy \in {<<BG("A", 2)>>, <<BG("A", 1), BG("B", 1)>>, <<>>, <<BG("A", 0)>>},
        get \in {<<BG("B", 1)>>, <<BG("B", 1), BG("B", 1)>>, <<BG("A", 1), BG("B", 1)>>},
        lim \in {1, 2} }

StrategyCoupons == CartWiseCoupons \cup ProductWiseCoupons \cup BxGyCoupons

(***************************************************************************)
(* CartService operations, one action per step between two awaits          *)
(***************************************************************************)
\* POST /coupons -> createCoupon: one SET
createCoupon(coupon) ==
    /\ redis' = redisSet(redis, CouponKey(coupon.id), JSONstringify(coupon))
    /\ found' = NoFound
    /\ UNCHANGED <<now, req>>
    /\ UNCHANGED hvars

\* DELETE /coupons/:id -> deleteCoupon: one DEL
deleteCoupon(id) ==
    /\ CouponKey(id) \in DOMAIN redis
    /\ redis' = redisDel(redis, CouponKey(id))
    /\ found' = NoFound
    /\ UNCHANGED <<now, req>>
    /\ UNCHANGED hvars

\* PUT /coupons/:id: the route calls updateCoupon(id, {...body, id})
putCoupon(r, id, coupon) ==
    /\ req[r].pc = "idle"
    /\ req' = [req EXCEPT ![r] =
                 [IdleRequest EXCEPT !.op = "updateCoupon", !.pc = "updateCoupon",
                                     !.id = id, !.coupon = [coupon EXCEPT !.id = id]]]
    /\ found' = NoFound
    /\ UNCHANGED <<redis, now>>
    /\ UNCHANGED hvars

\* updateCoupon, first await: the existence check
updateCoupon_getCouponById(r) ==
    /\ req[r].pc = "updateCoupon"
    /\ LET existingCoupon == getCouponById(redis, req[r].id) IN
       req' = [req EXCEPT ![r] =
                 IF existingCoupon = NoCoupon
                 THEN [@ EXCEPT !.pc = "done",
                                !.result = IF req[r].op = "applyCoupon" THEN "ok" ELSE "null"]
                 ELSE [@ EXCEPT !.pc = "set"]]
    /\ found' = NoFound
    /\ UNCHANGED <<redis, now>>
    /\ UNCHANGED hvars

\* updateCoupon, second await: the SET of the coupon handed in
updateCoupon_set(r) ==
    /\ req[r].pc = "set"
    /\ redis' = redisSet(redis, CouponKey(req[r].id), JSONstringify(req[r].coupon))
    /\ req' = [req EXCEPT ![r] = [@ EXCEPT !.pc = "done", !.result = "ok"]]
    /\ found' = NoFound
    /\ UNCHANGED now
    /\ UNCHANGED hvars

\* POST /apply-coupon/:id -> applyCoupon, first await: the coupon read
applyCoupon_getCouponById(r, id, cart) ==
    /\ req[r].pc = "idle"
    /\ LET coupon == getCouponById(redis, id) IN
       /\ coupon # NoCoupon => ~ Ge(coupon.usedCount, MaxUsedCount)
       /\ req' = [req EXCEPT ![r] =
                    [IdleRequest EXCEPT !.op = "applyCoupon", !.pc = "getCouponById",
                                        !.id = id, !.cart0 = cart, !.cart = cart,
                                        !.coupon = coupon]]
    /\ found' = NoFound
    /\ UNCHANGED <<redis, now>>
    /\ UNCHANGED hvars

\* applyCoupon from the coupon read to the call of updateCoupon
applyCoupon_continue(r) ==
    /\ req[r].pc = "getCouponById"
    /\ LET run == applyCoupon_run(req[r].coupon, req[r].cart, now) IN
       req' = [req EXCEPT ![r] =
                 IF run.error # ""
                 THEN [@ EXCEPT !.pc = "done", !.result = run.error, !.cart = run.cart]
                 ELSE [@ EXCEPT !.pc = "updateCoupon", !.cart = run.cart,
                                !.coupon = run.coupon, !.applied = @ + 1]]
    /\ found' = NoFound
    /\ UNCHANGED <<redis, now>>
    /\ UNCHANGED hvars

\* cartItemSchema.parse: the three validated keys are kept, every other key
\* of the item is dropped
cartItemSchema_parse(item) == CartItem(item.product_id, item.quantity, item.price, "")

\* z.number().nonnegative().optional() on a field of the JSON body
nonnegativeOptional(x) == x = undefined \/ (IsNum(x) /\ x >= 0)

\* whether cartRequestSchema accepts the body {cart}
cartRequestSchema_accepts(cart) ==
    /\ Len(cart.items) >= 1
    /\ \A i \in 1..Len(cart.items) :
          cart.items[i].quantity > 0 /\ cart.items[i].price >= 0
    /\ nonnegativeOptional(cart.totalAmount)
    /\ nonnegativeOptional(cart.discountedAmount)
    /\ nonnegativeOptional(cart.subTotal)

\* cartRequestSchema.parse(req.body).cart, then the route's default of
\* totalAmount
cartRequestSchema_parse(cart) ==
    LET items == [i \in 1..Len(cart.items) |-> cartItemSchema_parse(cart.items[i])] IN
    [items |-> items,
     totalAmount |-> IF Truthy(cart.totalAmount) THEN cart.totalAmount
                     ELSE calculateCartTotal(items),
     discountedAmount |-> cart.discountedAmount,
     subTotal |-> cart.subTotal]

\* POST /apply-coupon/:id with the updated_cart of the request's response as
\* the body: the response of the first request is sent, the body is
\* validated and applyCoupon reads the coupon
applyCoupon_resubmit(r, id) ==
    /\ req[r].pc = "done"
    /\ req[r].op = "applyCoupon"
    /\ req[r].result = "ok"
    /\ LET coupon == getCouponById(redis, id)
           body == req[r].cart
       IN
       /\ coupon # NoCoupon => ~ Ge(coupon.usedCount, MaxUsedCount)
       /\ req' = [req EXCEPT ![r] =
                    IF ~ cartRequestSchema_accepts(body)
                    THEN [IdleRequest EXCEPT !.op = "applyCoupon", !.pc = "done",
                                             !.id = id, !.cart0 = body,
                                             !.cart = body,
                                             !.result = "Validation failed",
                                             !.applied = req[r].applied]
                    ELSE [IdleRequest EXCEPT !.op = "applyCoupon",
                                             !.pc = "getCouponById",
                                             !.id = id,
                                             !.cart0 = cartRequestSchema_parse(body),
                                             !.cart = cartRequestSchema_parse(body),
                                             !.coupon = coupon,
                                             !.applied = req[r].applied]]
    /\ found' = NoFound
    /\ UNCHANGED <<redis, now>>
    /\ UNCHANGED hvars

\* CartService.applyCoupon called again with the cart object an earlier call
\* returned
applyCoupon_again(r, id) ==
    /\ req[r].pc = "done"
    /\ req[r].op = "applyCoupon"
    /\ req[r].result = "ok"
    /\ LET coupon == getCouponById(redis, id) IN
       /\ coupon # NoCoupon => ~ Ge(coupon.usedCount, MaxUsedCount)
       /\ req' = [req EXCEPT ![r] =
                    [IdleRequest EXCEPT !.op = "applyCoupon", !.pc = "getCouponById",
                                        !.id = id, !.cart0 = req[r].cart,
                                        !.cart = req[r].cart, !.coupon = coupon,
                                        !.applied = req[r].applied]]
    /\ found' = NoFound
    /\ UNCHANGED <<redis, now>>
    /\ UNCHANGED hvars

\* the response is sent and the request's locals are dropped
respond(r) ==
    /\ req[r].pc = "done"
    /\ req' = [req EXCEPT ![r] = IdleRequest]
    /\ found' = NoFound
    /\ UNCHANGED <<redis, now>>
    /\ UNCHANGED hvars

\* time passes
Tick ==
    /\ now < MaxTime
    /\ now' = now + 1
    /\ found' = NoFound
    /\ UNCHANGED <<redis, req>>
    /\ UNCHANGED hvars

\* the keys KEYS 'coupon:*' returns
couponKeys(store) == { k \in DOMAIN store : \E id \in CouponIds : k = CouponKey(id) }

\* the orders KEYS can list a set of keys in
KeyOrders(keys) ==
    { order \in [1..Cardinality(keys) -> keys] :
        \A a, b \in 1..Cardinality(keys) : a # b => order[a] # order[b] }

\* getAllCoupons: the coupons parsed from the values of the keys, in key order
getAllCoupons(store, order) == [i \in 1..Len(order) |-> store[order[i]]]

\* the cart object after findApplicableCoupons: each strategy that has coupons
\* of its type is handed the caller's cart, in the order cart, product, BxGy
findApplicableCoupons_cart(allCoupons, cart, t) ==
    LET gate(c) == couponGate(c, t)
        activeCoupons == SelectSeq(allCoupons, gate)
        isCart(c) == typeKey(c) = "cart"
        isProduct(c) == typeKey(c) = "product"
        isBxGy(c) == typeKey(c) = "BxGy"
        after(strategy, c, coupons) ==
            IF coupons = <<>> THEN c ELSE isApplicable_cart(strategy, c, coupons)
    IN  after("BxGyHandler",
              after("ProductHandler",
                    after("cartHandler", cart, SelectSeq(activeCoupons, isCart)),
                    SelectSeq(activeCoupons, isProduct)),
              SelectSeq(activeCoupons, isBxGy))

\* POST /applicable-coupons -> findApplicableCoupons
findApplicableCoupons(cart, order) ==
    /\ order \in KeyOrders(couponKeys(redis))
    /\ LET allCoupons == getAllCoupons(redis, order) IN
       \E result \in sortOutcomes(applicableUnsorted(allCoupons, cart, now)) :
           found' = [served |-> TRUE,
                     cart |-> findApplicableCoupons_cart(allCoupons, cart, now),
                     result |-> result]
    /\ UNCHANGED <<redis, now, req>>
    /\ UNCHANGED hvars

\* calculateBxGyParams has not been called
NoParams ==
    [requiredBuyQuantity |-> undefined, totalBuyQuantityInCart |-> undefined,
     actualRepetitions |-> undefined, requiredGetQuantity |-> undefined]

StrategyIdle ==
    /\ hCart = NoCart
    /\ hCoupon = NoCoupon
    /\ hRan = {}
    /\ hCands = <<>>
    /\ hDiscount = undefined
    /\ hParams = NoParams
    /\ hApplied = 0

(***************************************************************************)
(* Service-level specification: the store of one coupon id under the       *)
(* interleaved requests of the HTTP surface                                *)
(***************************************************************************)
Init ==
    /\ redis = EmptyStore
    /\ now = 0
    /\ req = [r \in Requests |-> IdleRequest]
    /\ found = NoFound
    /\ StrategyIdle

Next ==
    \/ \E coupon \in CreatePool : createCoupon(coupon)
    \/ deleteCoupon("c1")
    \/ \E r \in Requests, coupon \in UpdatePool : putCoupon(r, "c1", coupon)
    \/ \E r \in Requests : updateCoupon_getCouponById(r)
    \/ \E r \in Requests : updateCoupon_set(r)
    \/ \E r \in Requests, cart \in ServiceCarts : applyCoupon_getCouponById(r, "c1", cart)
    \/ \E r \in Requests : applyCoupon_continue(r)
    \/ \E r \in Requests : respond(r)
    \/ Tick

Spec == Init /\ [][Next]_vars

(***************************************************************************)
(* Concurrent applications of one stored coupon: no create, update or      *)
(* delete request, every request is an applyCoupon that runs once          *)
(***************************************************************************)
MaxLimit == 2

RaceInit ==
    /\ \E type \in {"cart", "Product", "BxGy"}, limit \in 1..MaxLimit :
          redis = redisSet(EmptyStore, CouponKey("c1"),
                           Coupon("c1", type, TRUE, undefined, limit, 0,
                                  ConditionsOf(type), DiscountOf(type)))
    /\ now = 0
    /\ req = [r \in Requests |-> IdleRequest]
    /\ found = NoFound
    /\ StrategyIdle

RaceNext ==
    \/ \E r \in Requests, cart \in ServiceCarts : applyCoupon_getCouponById(r, "c1", cart)
    \/ \E r \in Requests : applyCoupon_continue(r)
    \/ \E r \in Requests : updateCoupon_getCouponById(r)
    \/ \E r \in Requests : updateCoupon_set(r)

SpecRace == RaceInit /\ [][RaceNext]_vars

(***************************************************************************)
(* Applications of one stored coupon where a client may post the cart of   *)
(* a response again                                                        *)
(***************************************************************************)
ResubmitNext ==
    \/ \E r \in Requests, cart \in ServiceCarts : applyCoupon_getCouponById(r, "c1", cart)
    \/ \E r \in Requests : applyCoupon_continue(r)
    \/ \E r \in Requests : updateCoupon_getCouponById(r)
    \/ \E r \in Requests : updateCoupon_set(r)
    \/ \E r \in Requests : applyCoupon_resubmit(r, "c1")
    \/ \E r \in Requests : respond(r)

SpecResubmit == RaceInit /\ [][ResubmitNext]_vars

(***************************************************************************)
(* Applications of two stored coupons, where the cart of a response may be *)
(* handed to applyCoupon again, directly or through the route              *)
(***************************************************************************)
StackingInit ==
    /\ \E t1, t2 \in {"cart", "Product", "BxGy"} :
          redis = redisSet(redisSet(EmptyStore, CouponKey("c1"),
                                    Coupon("c1", t1, TRUE, undefined, undefined, 0,
                                           ConditionsOf(t1), DiscountOf(t1))),
                           CouponKey("c2"),
                           Coupon("c2", t2, TRUE, undefined, undefined, 0,
                                  ConditionsOf(t2), DiscountOf(t2)))
    /\ now = 0
    /\ req = [r \in Requests |-> IdleRequest]
    /\ found = NoFound
    /\ StrategyIdle

\* the calls on one cart follow one another: one request at a time
StackingRequests == {"r1"}

StackingNext ==
    \/ \E r \in StackingRequests, id \in {"c1", "c2"}, cart \in ServiceCarts :
          applyCoupon_getCouponById(r, id, cart)
    \/ \E r \in StackingRequests : applyCoupon_continue(r)
    \/ \E r \in StackingRequests : updateCoupon_getCouponById(r)
    \/ \E r \in StackingRequests : updateCoupon_set(r)
    \/ \E r \in StackingRequests, id \in {"c1", "c2"} : applyCoupon_again(r, id)
    \/ \E r \in StackingRequests, id \in {"c1", "c2"} : applyCoupon_resubmit(r, id)
    \/ \E r \in StackingRequests : respond(r)

SpecStacking == StackingInit /\ [][StackingNext]_vars

(***************************************************************************)
(* Discovery over a store of several coupons                               *)
(***************************************************************************)
\* status fields of a created coupon: isActive, expiryDate, usageLimit, usedCount
StatusPool ==
    { <<TRUE, undefined, undefined, 0>>, <<FALSE, undefined, undefined, 0>>,
      <<TRUE, 1, 2, 1>>, <<TRUE, undefined, 1, 1>> }

\* type, conditions and discount of a created coupon
ShapePool ==
    { <<"cart", CartWiseConditions(100, undefined, undefined), Fixed(30)>>,
      <<"Product", ProductWiseConditions({"B"}, {}, undefined), Percentage(20, undefined)>>,
      <<"BxGy", BxGyConditions(<<BG("A", 2)>>, <<BG("B", 1)>>, 1), FreeProduct>>,
      <<"BxGy", BxGyConditions(<<>>, <<BG("B", 1)>>, 1), FreeProduct>> }

DiscoveryPool ==
    { Coupon(id, sh[1], st[1], st[2], st[3], st[4], sh[2], sh[3]) :
        id \in CouponIds, sh \in ShapePool, st \in StatusPool }

DiscoveryNext ==
    \/ \E coupon \in DiscoveryPool :
          CouponKey(coupon.id) \notin DOMAIN redis /\ createCoupon(coupon)
    \/ \E id \in CouponIds : deleteCoupon(id)
    \/ Tick
    \/ \E cart \in ServiceCarts, order \in KeyOrders(couponKeys(redis)) :
          findApplicableCoupons(cart, order)

SpecDiscovery == Init /\ [][DiscoveryNext]_vars

(***************************************************************************)
(* Strategy-level specification: one handler, one cart, one coupon         *)
(***************************************************************************)
hStrategy == getStrategy(typeKey(hCoupon))

\* applyDiscount calls made on one cart
MaxApply == 2

HInit ==
    /\ hCart \in Carts
    /\ hCoupon \in StrategyCoupons
    /\ hRan = {}
    /\ hCands = <<>>
    /\ hDiscount = undefined
    /\ hParams = NoParams
    /\ hApplied = 0
    /\ redis = EmptyStore
    /\ now = 0
    /\ req = [r \in Requests |-> IdleRequest]
    /\ found = NoFound

\* a call of isApplicable(cart, [coupon]); a repeated call overwrites the
\* result recorded for the earlier one
H_isApplicable ==
    /\ hCands' = isApplicable(hStrategy, hCart, <<hCoupon>>)
    /\ hCart' = isApplicable_cart(hStrategy, hCart, <<hCoupon>>)
    /\ hRan' = hRan \cup {"isApplicable"}
    /\ UNCHANGED <<hCoupon, hDiscount, hParams, hApplied>>
    /\ UNCHANGED svars

\* a call of calculateDiscount(cart, coupon)
H_calculateDiscount ==
    /\ hDiscount' = calculateDiscount(hStrategy, hCart, hCoupon)
    /\ hCart' = calculateDiscount_cart(hStrategy, hCart, hCoupon)
    /\ hRan' = hRan \cup {"calculateDiscount"}
    /\ UNCHANGED <<hCoupon, hCands, hParams, hApplied>>
    /\ UNCHANGED svars

\* a call of BxGyHandler.calculateBxGyParams(cart, conditions)
H_calculateBxGyParams ==
    /\ hStrategy = "BxGyHandler"
    /\ hParams' = BxGy_calculateBxGyParams(hCart, hCoupon.conditions)
    /\ hRan' = hRan \cup {"calculateBxGyParams"}
    /\ UNCHANGED <<hCart, hCoupon, hCands, hDiscount, hApplied>>
    /\ UNCHANGED svars

\* a call of applyDiscount(cart, coupon) on the cart as the calls before left it
H_applyDiscount ==
    /\ hApplied < MaxApply
    /\ hCart' = applyDiscount(hStrategy, hCart, hCoupon)
    /\ hApplied' = hApplied + 1
    /\ UNCHANGED <<hCoupon, hRan, hCands, hDiscount, hParams>>
    /\ UNCHANGED svars

HNext ==
    \/ H_isApplicable
    \/ H_calculateDiscount
    \/ H_calculateBxGyParams
    \/ H_applyDiscount

SpecStrategy == HInit /\ [][HNext]_vars

(***************************************************************************)
(* The read-only operations on one cart over a store of two coupons, one   *)
(* of which is also handed to its handler directly                         *)
(***************************************************************************)
ReadOnlyInit ==
    /\ \E a, b \in DiscoveryPool :
          /\ a.id = "c1"
          /\ b.id = "c2"
          /\ redis = redisSet(redisSet(EmptyStore, CouponKey(a.id), a), CouponKey(b.id), b)
          /\ hCoupon \in {a, b}
    /\ hCart \in ServiceCarts
    /\ hRan = {}
    /\ hCands = <<>>
    /\ hDiscount = undefined
    /\ hParams = NoParams
    /\ hApplied = 0
    /\ now = 0
    /\ req = [r \in Requests |-> IdleRequest]
    /\ found = NoFound

ReadOnlyNext ==
    \/ H_isApplicable
    \/ H_calculateDiscount
    \/ \E order \in KeyOrders(couponKeys(redis)) : findApplicableCoupons(hCart, order)
    \/ Tick

SpecReadOnly == ReadOnlyInit /\ [][ReadOnlyNext]_vars

(***************************************************************************)
(* GET /coupons -> getAllCoupons over the store startRedis seeds, one      *)
(* action per await. The service file holds the method twice: the one of   *)
(* lines 229-250 (KEYS 'coupon:*', one GET per key) and the one of lines   *)
(* 30-46 (KEYS '*', then LPOP 'keys' while the array is non-empty)         *)
(***************************************************************************)
\* passes of the LPOP loop that are followed
MaxLoop == 4

\* startRedis: a product of the mock data, SET under its own id
SeededProduct == [id |-> "A", price |-> 50, category |-> "Electronics"]

\* startRedis: the seeded products under product.id, the seeded coupons under
\* coupon:<id>
startRedis(products, coupons) ==
    [k \in products \cup { CouponKey(id) : id \in DOMAIN coupons } |->
        IF k \in products THEN SeededProduct
        ELSE coupons[CHOOSE id \in DOMAIN coupons : CouponKey(id) = k]]

\* the keys KEYS '*' returns
allKeys(store) == DOMAIN store

\* LPOP 'keys': the head of the list stored under the key "keys", null when
\* no such key is stored
lpop(store) == IF "keys" \in DOMAIN store THEN store["keys"] ELSE null

ListingInit ==
    /\ \E ids \in SUBSET CouponIds, products \in SUBSET {"A"} :
          \E coupons \in [ids -> {"cart", "Product", "BxGy"}] :
              redis = startRedis(products,
                          [id \in ids |-> NewCoupon(id, coupons[id], undefined,
                                              ConditionsOf(coupons[id]),
                                              DiscountOf(coupons[id]))])
    /\ now = 0
    /\ req = [r \in Requests |-> IdleRequest]
    /\ found = NoFound
    /\ StrategyIdle

\* lines 229-235: KEYS 'coupon:*'; no key, the empty list is returned
getAllCoupons_keys(r, order) ==
    /\ req[r].pc = "idle"
    /\ order \in KeyOrders(couponKeys(redis))
    /\ req' = [req EXCEPT ![r] =
                 [IdleRequest EXCEPT !.op = "getAllCoupons",
                                     !.pc = IF Len(order) = 0 THEN "done" ELSE "get",
                                     !.result = IF Len(order) = 0 THEN "ok" ELSE "",
                                     !.keys = order]]
    /\ found' = NoFound
    /\ UNCHANGED <<redis, now>>
    /\ UNCHANGED hvars

\* lines 237-249: one pass of the for-of loop: GET the next key and push the
\* parsed value when there is one; after the last key the list is returned
getAllCoupons_get(r) ==
    /\ req[r].op = "getAllCoupons"
    /\ req[r].pc = "get"
    /\ LET key == req[r].keys[req[r].iterations + 1]
           last == req[r].iterations + 1 = Len(req[r].keys)
       IN  req' = [req EXCEPT ![r].iterations = @ + 1,
                              ![r].coupons = IF key \in DOMAIN redis
                                             THEN Append(@, redis[key]) ELSE @,
                              ![r].pc = IF last THEN "done" ELSE "get",
                              ![r].result = IF last THEN "ok" ELSE ""]
    /\ found' = NoFound
    /\ UNCHANGED <<redis, now>>
    /\ UNCHANGED hvars

\* lines 31-32: KEYS '*'
getAllCoupons_keysAll(r, order) ==
    /\ req[r].pc = "idle"
    /\ order \in KeyOrders(allKeys(redis))
    /\ req' = [req EXCEPT ![r] =
                 [IdleRequest EXCEPT !.op = "getAllCoupons", !.pc = "lpop",
                                     !.keys = order]]
    /\ found' = NoFound
    /\ UNCHANGED <<redis, now>>
    /\ UNCHANGED hvars

\* lines 34-45: one pass of the do-while loop: LPOP 'keys', GET and push when
\* a key came back, and the list is returned once keys.length > 0 fails
getAllCoupons_lpop(r) ==
    /\ req[r].op = "getAllCoupons"
    /\ req[r].pc = "lpop"
    /\ req[r].iterations < MaxLoop
    /\ LET key == lpop(redis)
           again == Len(req[r].keys) > 0
       IN  req' = [req EXCEPT ![r].iterations = @ + 1,
                              ![r].coupons = IF key # null /\ key \in DOMAIN redis
                                             THEN Append(@, redis[key]) ELSE @,
                              ![r].pc = IF again THEN "lpop" ELSE "done",
                              ![r].result = IF again THEN "" ELSE "ok"]
    /\ found' = NoFound
    /\ UNCHANGED <<redis, now>>
    /\ UNCHANGED hvars

\* one GET /coupons request is followed
ListingRequests == {"r1"}

ListingNext ==
    \/ \E r \in ListingRequests, order \in KeyOrders(couponKeys(redis)) :
          getAllCoupons_keys(r, order)
    \/ \E r \in ListingRequests : getAllCoupons_get(r)
    \/ \E r \in ListingRequests, order \in KeyOrders(allKeys(redis)) :
          getAllCoupons_keysAll(r, order)
    \/ \E r \in ListingRequests : getAllCoupons_lpop(r)
    \/ \E r \in ListingRequests : respond(r)

SpecListing == ListingInit /\ [][ListingNext]_vars

(***************************************************************************)
(* Strategy-level properties                                               *)
(***************************************************************************)
\* floor(T * r / 100), reduced to the cap m when m is present and smaller
PercentageOf(T, dd) ==
    LET raw == (T * dd.value) \div 100 IN
    IF dd.maxDiscount # undefined /\ dd.maxDiscount < raw THEN dd.maxDiscount ELSE raw

\* C1: for a CartWide percentage coupon with rate r and optional cap m,
\* calculateDiscount returns floor(T*r/100) reduced to m when m is present and
\* smaller, and applyDiscount sets subTotal to T minus that amount.
C1_CartWisePercentage ==
    (hStrategy = "cartHandler" /\ hCoupon.discountDetails.type = "percentage") =>
        /\ "calculateDiscount" \in hRan =>
                hDiscount = PercentageOf(hCart.totalAmount, hCoupon.discountDetails)
        /\ hApplied = 1 =>
                hCart.subTotal =
                    hCart.totalAmount - PercentageOf(hCart.totalAmount, hCoupon.discountDetails)

\* C2: for every cart and CartWide coupon the discount computed and applied
\* never exceeds totalAmount: after applyDiscount discountedAmount <= totalAmount
\* and subTotal >= 0.
C2_CartWiseDiscountWithinTotal ==
    hStrategy = "cartHandler" =>
        /\ "calculateDiscount" \in hRan => hDiscount <= hCart.totalAmount
        /\ hApplied = 1 =>
                /\ hCart.discountedAmount <= hCart.totalAmount
                /\ hCart.subTotal >= 0

\* the items of the cart a ProductScoped coupon matches: product id membership
\* OR category membership
MatchedItems(cart, coupon) ==
    { i \in 1..Len(cart.items) :
        \/ cart.items[i].product_id \in coupon.conditions.productIds
        \/ /\ cart.items[i].category # ""
           /\ cart.items[i].category \in coupon.conditions.categories }

RECURSIVE SumOver(_, _)
SumOver(S, f) ==
    IF S = {} THEN 0
    ELSE LET x == CHOOSE y \in S : TRUE IN f[x] + SumOver(S \ {x}, f)

\* the discount a ProductScoped coupon gives one item
ItemDiscountOf(item, dd) ==
    IF dd.type = "percentage" THEN PercentageOf(item.price * item.quantity, dd)
    ELSE IF dd.type = "fixed" THEN dd.value * item.quantity
    ELSE 0

ProductScopedDiscount(cart, coupon) ==
    SumOver(MatchedItems(cart, coupon),
            [i \in 1..Len(cart.items) |-> ItemDiscountOf(cart.items[i], coupon.discountDetails)])

ProductScopedEligible(cart, coupon) ==
    /\ MatchedItems(cart, coupon) # {}
    /\ coupon.conditions.minQuantity # undefined =>
          SumOver(MatchedItems(cart, coupon),
                  [i \in 1..Len(cart.items) |-> cart.items[i].quantity])
             >= coupon.conditions.minQuantity
    /\ ProductScopedDiscount(cart, coupon) > 0

ScenarioC ==
    /\ hCart.totalAmount = 50000
    /\ Len(hCart.items) = 1
    /\ hCart.items[1].product_id = "LAPTOP_001"
    /\ hCart.items[1].quantity = 1
    /\ hCart.items[1].price = 50000
    /\ hCart.items[1].category = "Electronics"
    /\ hCoupon.type = "Product"
    /\ hCoupon.conditions = ProductWiseConditions({}, {"Electronics"}, undefined)
    /\ hCoupon.discountDetails = Percentage(20, undefined)

C10_ProductWiseItemDiscountBounded ==
    hStrategy = "ProductHandler" =>
        /\ "calculateDiscount" \in hRan =>
                /\ hDiscount >= 0
                /\ hDiscount <=
                      SumOver(MatchedItems(hCart, hCoupon),
                              [i \in 1..Len(hCart.items) |->
                                 hCart.items[i].quantity * hCart.items[i].price])
        /\ hApplied = 1 =>
                \A i \in MatchedItems(hCart, hCoupon) :
                    /\ hCart.items[i].total_discount >= 0
                    /\ hCart.items[i].total_discount
                          <= hCart.items[i].quantity * hCart.items[i].price
                    /\ hCart.items[i].final_price >= 0

\* the quantity of product pid present in the cart, over all its lines
QuantityInCart(cart, pid) ==
    SumOver({ i \in 1..Len(cart.items) : cart.items[i].product_id = pid },
            [i \in 1..Len(cart.items) |-> cart.items[i].quantity])

\* C11: for every cart and BuyXGetY coupon, whatever its buy and get lists
\* contain (a get list may name one product in several entries), the free
\* quantity calculateDiscount and applyDiscount count for a product never
\* exceeds the quantity of that product present in the cart.
C11_BxGyFreeWithinCart ==
    (hStrategy = "BxGyHandler" /\ ("calculateDiscount" \in hRan \/ hApplied >= 1)) =>
        \A pid \in Products :
            LET free == BxGy_freeCounted(hCart, hCoupon, pid) IN
            /\ IsNum(free)
            /\ free <= QuantityInCart(hCart, pid)

\* requiredBuyQty: the sum of the buy entries' quantities
RequiredBuyQty(conditions) ==
    SumOver(1..Len(conditions.buyProducts),
            [i \in 1..Len(conditions.buyProducts) |-> conditions.buyProducts[i].quantity])

\* totalBuyQtyInCart: the sum, over the buy entries, of the matching cart
\* item's quantity (0 if absent)
TotalBuyQtyInCart(cart, conditions) ==
    SumOver(1..Len(conditions.buyProducts),
            [i \in 1..Len(conditions.buyProducts) |->
               LET k == FindItem(cart.items, conditions.buyProducts[i].productId) IN
               IF k = 0 THEN 0 ELSE cart.items[k].quantity])

\* the cart with one more unit of its i-th item
OneMore(cart, i) == [cart EXCEPT !.items[i].quantity = @ + 1]

\* C12: for BuyXGetY, actualRepetitions = min(floor(totalBuyQtyInCart /
\* requiredBuyQty), repetitionLimit); with requiredBuyQty > 0 and the limit
\* fixed it never exceeds repetitionLimit and does not decrease when
\* totalBuyQtyInCart increases.
C12_ActualRepetitions ==
    ("calculateBxGyParams" \in hRan /\ RequiredBuyQty(hCoupon.conditions) > 0) =>
        LET conditions == hCoupon.conditions
            maxRepetitions ==
                TotalBuyQtyInCart(hCart, conditions) \div RequiredBuyQty(conditions)
            limit == conditions.repetitionLimit
        IN  /\ hParams.requiredBuyQuantity = RequiredBuyQty(conditions)
            /\ hParams.totalBuyQuantityInCart = TotalBuyQtyInCart(hCart, conditions)
            /\ hParams.actualRepetitions =
                  (IF maxRepetitions < limit THEN maxRepetitions ELSE limit)
            /\ hParams.actualRepetitions <= limit
            /\ \A i \in 1..Len(hCart.items) :
                  LET more == BxGy_calculateBxGyParams(OneMore(hCart, i), conditions) IN
                  /\ more.totalBuyQuantityInCart >= hParams.totalBuyQuantityInCart
                  /\ more.actualRepetitions >= hParams.actualRepetitions

\* the buy quantity in the cart covers the requirement twice over, and the
\* repetition limit of 1 is what calculateBxGyParams returned
C12_Witness ==
    /\ "calculateBxGyParams" \in hRan
    /\ RequiredBuyQty(hCoupon.conditions) = 2
    /\ TotalBuyQtyInCart(hCart, hCoupon.conditions) = 4
    /\ hCoupon.conditions.repetitionLimit = 1
    /\ hParams.actualRepetitions = 1

\* C13: after applyDiscount of any of the three strategies on any cart,
\* subTotal = totalAmount - discountedAmount holds on the cart and every item
\* the application touched satisfies final_price = quantity*price - total_discount.
C13_AppliedCartArithmetic ==
    hApplied >= 1 =>
        /\ IsNum(hCart.discountedAmount)
        /\ IsNum(hCart.subTotal)
        /\ hCart.subTotal = hCart.totalAmount - hCart.discountedAmount
        /\ \A i \in 1..Len(hCart.items) :
              hCart.items[i].appliedCouponIds # <<>> =>
                  /\ IsNum(hCart.items[i].total_discount)
                  /\ IsNum(hCart.items[i].final_price)
                  /\ hCart.items[i].final_price =
                        hCart.items[i].quantity * hCart.items[i].price
                          - hCart.items[i].total_discount

\* the cart with every field an application writes removed
Pristine(cart) ==
    Cart([i \in 1..Len(cart.items) |->
            CartItem(cart.items[i].product_id, cart.items[i].quantity,
                     cart.items[i].price, cart.items[i].category)],
         cart.totalAmount)

\* the entitlement actualRepetitions * requiredGetQty of the cart and coupon
\* at hand
Entitlement ==
    LET params == BxGy_calculateBxGyParams(hCart, hCoupon.conditions) IN
    Mul(params.actualRepetitions, params.requiredGetQuantity)

\* the free quantity per get entry, as the handler's loop computes it
Grants == BxGy_grantLoop(hCart.items, hCoupon.conditions.getProducts, 1, Entitlement)

\* the cart item get entry k names, 0 when the product is not in the cart
GetItem(k) == FindItem(hCart.items, hCoupon.conditions.getProducts[k].productId)

\* what is left of the entitlement when entry k is reached: the entitlement
\* less the cart quantities of the earlier entries present in the cart
RemainingAt(k) ==
    LET before == SumSeq([j \in 1..(k - 1) |->
                            IF GetItem(j) = 0 THEN 0 ELSE hCart.items[GetItem(j)].quantity])
    IN  IF Entitlement = NaN THEN NaN
        ELSE IF Entitlement > before THEN Entitlement - before ELSE 0

\* price(item) * granted quantity of entry k, 0 for an entry granted nothing
GrantAmount(k) ==
    IF Grants[k] = undefined THEN 0 ELSE Mul(Grants[k], hCart.items[GetItem(k)].price)

\* entry k is the last entry granted something that names its product
LastGrantOf(k) ==
    /\ Grants[k] # undefined
    /\ \A l \in (k + 1)..Len(Grants) :
          GetItem(l) = GetItem(k) => Grants[l] = undefined

ScenarioD ==
    /\ hCart.items = <<CartItem("A", 5, 50, "Electronics"), CartItem("B", 1, 200, "")>>
    /\ hCoupon.type = "BxGy"
    /\ hCoupon.conditions = BxGyConditions(<<BG("A", 2)>>, <<BG("B", 1)>>, 2)

\* C23: BuyXGetY distributes the entitlement over the get entries in declared
\* order: an entry whose product is in the cart is granted
\* min(remaining entitlement, the item's cart quantity), a later entry is
\* granted something only after every earlier entry present in the cart was
\* granted its whole cart quantity, the discount is the sum of price * granted
\* quantity, and buy 2 A get 1 B, limit 2, on A x5 and B x1 grants 1 free B
\* and discount price(B).
C23_EntitlementInDeclaredOrder ==
    hStrategy = "BxGyHandler" =>
        /\ \A k \in 1..Len(Grants) :
              /\ Grants[k] = IF GetItem(k) = 0 \/ RemainingAt(k) = 0 THEN undefined
                             ELSE MathMin(RemainingAt(k), hCart.items[GetItem(k)].quantity)
              /\ \A j \in 1..(k - 1) :
                    (IsNum(Grants[k]) /\ Grants[k] > 0 /\ GetItem(j) # 0) =>
                        Grants[j] = hCart.items[GetItem(j)].quantity
        /\ "calculateDiscount" \in hRan =>
              hDiscount = SumSeq([k \in 1..Len(Grants) |-> GrantAmount(k)])
        /\ hApplied >= 1 =>
              \A k \in 1..Len(Grants) :
                  LastGrantOf(k) =>
                      /\ hCart.items[GetItem(k)].freeQuantity = Grants[k]
                      /\ hCart.items[GetItem(k)].total_discount = GrantAmount(k)
        /\ ScenarioD =>
              /\ Grants = <<1>>
              /\ "calculateDiscount" \in hRan => hDiscount = 200
              /\ hApplied >= 1 => hCart.items[2].freeQuantity = 1

\* calculateDiscount and applyDiscount have run on a cart that holds the
\* products of two get entries while the entitlement covers the first only:
\* the first entry got its whole cart quantity and the second nothing
C23_Witness ==
    /\ hStrategy = "BxGyHandler"
    /\ "calculateDiscount" \in hRan
    /\ hApplied >= 1
    /\ Len(Grants) = 2
    /\ GetItem(1) # 0
    /\ GetItem(2) # 0
    /\ GetItem(1) # GetItem(2)
    /\ Grants[1] = hCart.items[GetItem(1)].quantity
    /\ Grants[1] = Entitlement
    /\ Grants[2] = undefined
    /\ hCart.items[GetItem(2)].freeQuantity = undefined
    /\ hDiscount = GrantAmount(1)

\* C24: a BuyXGetY coupon whose requiredBuyQty is 0 is not applicable to any
\* cart: isApplicable returns no candidate for it, calculateDiscount returns 0
\* and applyDiscount leaves the cart as it was.
C24_ZeroBuyQuantityNotApplicable ==
    (hStrategy = "BxGyHandler" /\ RequiredBuyQty(hCoupon.conditions) = 0) =>
        /\ "isApplicable" \in hRan => hCands = <<>>
        /\ "calculateDiscount" \in hRan => hDiscount = 0
        /\ Pristine(hCart) = hCart

\* C25: after ProductScoped or BuyXGetY applyDiscount on a cart that carried
\* no earlier discount, discountedAmount is the sum of total_discount over
\* the cart's items and subTotal is totalAmount minus that sum.
C25_CartAmountsAreItemSums ==
    (hStrategy \in {"ProductHandler", "BxGyHandler"} /\ hApplied = 1) =>
        LET sum == SumSeq([i \in 1..Len(hCart.items) |->
                             IF hCart.items[i].total_discount = undefined THEN 0
                             ELSE hCart.items[i].total_discount])
        IN  /\ hCart.discountedAmount = sum
            /\ hCart.subTotal = Sub(hCart.totalAmount, sum)

\* C26: CartWiseHandler.isApplicable returns a candidate for a coupon exactly
\* when totalAmount >= minCartValue, totalAmount <= maxCartValue if
\* maxCartValue is present, the item count >= minItems if minItems is present,
\* and the computed discount is strictly positive; application then sets only
\* discountedAmount and subTotal and touches no per-item field.
C26_CartWiseIsApplicable ==
    hStrategy = "cartHandler" =>
        LET conditions == hCoupon.conditions
            discount == CartWise_calculateDiscount(hCart, hCoupon)
            eligible ==
                /\ hCart.totalAmount >= conditions.minCartValue
                /\ conditions.maxCartValue # undefined =>
                      hCart.totalAmount <= conditions.maxCartValue
                /\ conditions.minItems # undefined =>
                      Len(hCart.items) >= conditions.minItems
                /\ discount > 0
        IN  /\ "isApplicable" \in hRan =>
                  hCands = IF eligible
                           THEN <<ApplicableCoupon(hCoupon.id, discount, "cart")>>
                           ELSE <<>>
            /\ hApplied >= 1 =>
                  /\ hCart.items = Pristine(hCart).items
                  /\ hCart.discountedAmount = discount
                  /\ hCart.subTotal = hCart.totalAmount - discount

\* C14: for each strategy, cart and coupon the three operations agree: a
\* candidate that isApplicable returns carries the amount calculateDiscount
\* returns, and applyDiscount writes that same amount as discountedAmount.
C14_OperationsAgree ==
    ("isApplicable" \in hRan /\ Len(hCands) = 1) =>
        /\ "calculateDiscount" \in hRan => hCands[1].discount = hDiscount
        /\ hApplied >= 1 => hCart.discountedAmount = hCands[1].discount

\* the three operations of the BxGy handler have run on an eligible cart and
\* agree on a positive amount
C14_Witness ==
    /\ hStrategy = "BxGyHandler"
    /\ {"isApplicable", "calculateDiscount"} \subseteq hRan
    /\ hApplied >= 1
    /\ Len(hCands) = 1
    /\ hDiscount > 0
    /\ hCands[1].discount = hDiscount
    /\ hCart.discountedAmount = hDiscount

\* C16 as stated: a second applyDiscount call on the cart the first call
\* returned, with the same coupon, double-counts: discountedAmount becomes
\* larger and subTotal smaller than after the first call.
C16_SecondApplyDoubleCounts ==
    [][(hApplied = 1 /\ hApplied' = 2) =>
          /\ hCart'.discountedAmount > hCart.discountedAmount
          /\ hCart'.subTotal < hCart.subTotal]_vars

\* every field of the item but the list of applied coupon ids
ItemAmounts(item) == [item EXCEPT !.appliedCouponIds = <<>>]

\* C16 (amended): a second applyDiscount call on the cart the first call
\* returned, with the same coupon, recomputes the same amounts from quantity,
\* price and totalAmount: discountedAmount, subTotal and every item's
\* total_discount, final_price and freeQuantity stay as the first call left
\* them; only appliedCouponIds grows, repeating the entries of the first call.
C16_SecondApplyRepeatsAmounts ==
    [][(hApplied = 1 /\ hApplied' = 2) =>
          /\ hCart'.discountedAmount = hCart.discountedAmount
          /\ hCart'.subTotal = hCart.subTotal
          /\ hCart'.totalAmount = hCart.totalAmount
          /\ Len(hCart'.items) = Len(hCart.items)
          /\ \A i \in 1..Len(hCart.items) :
                /\ ItemAmounts(hCart'.items[i]) = ItemAmounts(hCart.items[i])
                /\ hCart'.items[i].appliedCouponIds =
                      hCart.items[i].appliedCouponIds \o hCart.items[i].appliedCouponIds]_vars

\* a cart discounted twice with the same coupon: a positive discountedAmount
\* and an item that lists the coupon twice
C16_Witness ==
    /\ hApplied = 2
    /\ IsNum(hCart.discountedAmount)
    /\ hCart.discountedAmount > 0
    /\ \E i \in 1..Len(hCart.items) :
          hCart.items[i].appliedCouponIds = <<hCoupon.id, hCoupon.id>>

Succeeded == { r \in Requests : req[r].op = "applyCoupon" /\ req[r].pc = "done"
                                    /\ req[r].result = "ok" }

\* C3: for a coupon with usage limit L and stored usedCount 0, with no update
\* or delete calls, in every interleaving of concurrent applyCoupon requests at
\* most L requests succeed.
C3_AtMostLimitSucceed ==
    Cardinality(Succeeded) <= getCouponById(redis, "c1").usageLimit

\* C4: once all applyCoupon requests on the coupon have finished, the stored
\* usedCount equals its initial value (0) plus the number of requests that
\* returned a cart.
C4_UsedCountCountsSuccesses ==
    (\A r \in Requests : req[r].pc = "done") =>
        getCouponById(redis, "c1").usedCount = 0 + Cardinality(Succeeded)

PreconditionErrors ==
    {"not found", "not active", "expired", "usage limit exceeded",
     "invalid type", "not applicable"}

\* the unmet preconditions of applyCoupon, in the order the specification lists them
Absent(c) == c = NoCoupon
Inactive(c) == c.isActive = FALSE
ExpiredAt(c, t) == c.expiryDate # undefined /\ c.expiryDate < t
Exhausted(c) ==
    /\ c.usageLimit # undefined
    /\ c.usedCount # undefined
    /\ ToNumber(c.usedCount) >= c.usageLimit
UnknownType(c) == c.type \notin {"cart", "Product", "product", "BxGy"}
NotApplicable(c, cart) == isApplicable(getStrategy(typeKey(c)), cart, <<c>>) = <<>>

FirstUnmet(c, cart, t) ==
    IF Absent(c) THEN "not found"
    ELSE IF Inactive(c) THEN "not active"
    ELSE IF ExpiredAt(c, t) THEN "expired"
    ELSE IF Exhausted(c) THEN "usage limit exceeded"
    ELSE IF UnknownType(c) THEN "invalid type"
    ELSE IF NotApplicable(c, cart) THEN "not applicable"
    ELSE ""

\* the step of request r that runs applyCoupon's checks
ChecksStep(r) == req[r].pc = "getCouponById" /\ req'[r].pc # "getCouponById"

\* C5: applyCoupon fails with a distinct error for each unmet precondition, in
\* the order not found, inactive, expired, usage limit exceeded, invalid type,
\* not applicable, and calls applyDiscount only when none of these holds.
C5_ErrorOrder ==
    [][\A r \in Requests :
          ChecksStep(r) =>
              LET unmet == FirstUnmet(req[r].coupon, req[r].cart, now) IN
              /\ unmet # "" =>
                    /\ req'[r].pc = "done"
                    /\ req'[r].result = unmet
                    /\ req'[r].cart = req[r].cart
              /\ unmet = "" =>
                    /\ req'[r].pc = "updateCoupon"
                    /\ req'[r].cart =
                          applyDiscount(getStrategy(typeKey(req[r].coupon)),
                                        req[r].cart, req[r].coupon)]_vars

\* an application that failed as expired although the coupon it read was also
\* exhausted and of no known type
C5_Witness ==
    \E r \in Requests :
        /\ req[r].op = "applyCoupon"
        /\ req[r].pc = "done"
        /\ req[r].result = "expired"
        /\ Exhausted(req[r].coupon)
        /\ UnknownType(req[r].coupon)

\* C6: whenever applyCoupon fails with a precondition error, the cart and its
\* items are exactly as before the call and the stored coupon is unchanged.
C6_FailureLeavesCartAndStore ==
    [][\A r \in Requests :
          /\ (ChecksStep(r) /\ req'[r].result \in PreconditionErrors) =>
                /\ req'[r].cart = req[r].cart0
                /\ redis' = redis
          /\ (req[r].pc = "idle" /\ req'[r].op = "applyCoupon") =>
                /\ req'[r].cart = req'[r].cart0
                /\ redis' = redis]_vars

\* Scenario E: an application that failed as expired, with its cart as submitted
C6_Witness ==
    \E r \in Requests :
        /\ req[r].op = "applyCoupon"
        /\ req[r].pc = "done"
        /\ req[r].result = "expired"
        /\ req[r].cart \in ServiceCarts
        /\ req[r].cart = req[r].cart0
        /\ getCouponById(redis, "c1") = req[r].coupon

\* C17: over any sequence of applyCoupon calls, applyDiscount is invoked at
\* most once for a given coupon on a given cart: posting the cart of a
\* response again with the same coupon id does not apply the discount again.
C17_SingleApplication ==
    \A r \in Requests : req[r].applied <= 1

\* C18: in every store state reachable by createCoupon, updateCoupon,
\* applyCoupon and deleteCoupon calls, every stored coupon that has a usage
\* limit satisfies usedCount <= usageLimit.
C18_UsedCountWithinLimit ==
    \A k \in couponKeys(redis) :
        redis[k].usageLimit # undefined =>
            /\ IsNum(redis[k].usedCount)
            /\ redis[k].usedCount <= redis[k].usageLimit

\* C19: from a coupon's creation to its deletion, across any interleaving of
\* updateCoupon and applyCoupon calls, the stored usedCount never decreases
\* from one store state to the next.
C19_UsedCountNeverDecreases ==
    [][ \A k \in couponKeys(redis) \cap couponKeys(redis') :
          (\E r \in Requests : req[r].pc = "set" /\ req'[r].pc = "done") =>
              /\ IsNum(redis[k].usedCount) => IsNum(redis'[k].usedCount)
              /\ IsNum(redis'[k].usedCount) /\ IsNum(redis[k].usedCount) =>
                    redis'[k].usedCount >= redis[k].usedCount
      ]_vars

\* position of the candidate for coupon id in a result list
PositionOf(result, id) == CHOOSE p \in 1..Len(result) : result[p].id = id

\* C20: discovery breaks ties deterministically: for the same cart and the
\* same stored coupons, candidates of equal discount come back in the same
\* relative order whatever order the backend lists the coupon keys in.
C20_TieOrderIndependentOfKeyOrder ==
    found.served =>
        \A order \in KeyOrders(couponKeys(redis)) :
            \A other \in sortOutcomes(applicableUnsorted(getAllCoupons(redis, order),
                                                         found.cart, now)) :
                \A i, j \in 1..Len(found.result) :
                    /\ i < j
                    /\ IsNum(found.result[i].discount)
                    /\ found.result[i].discount = found.result[j].discount
                    => PositionOf(other, found.result[i].id)
                         < PositionOf(other, found.result[j].id)

\* the positions of a result list that name coupon id
EntriesOf(result, id) == { i \in 1..Len(result) : result[i].id = id }

\* C21: discovery is never interrupted by one unsuitable coupon: the list
\* holds exactly one candidate for every stored coupon that passes the gate,
\* has a recognised type and, taken alone, is eligible with a positive
\* discount, and no candidate for any other stored coupon.
C21_DiscoveryComplete ==
    found.served =>
        \A k \in couponKeys(redis) :
            LET c == redis[k]
                strategy == getStrategy(typeKey(c))
                alone == IF strategy = "null" THEN <<>>
                         ELSE isApplicable(strategy, found.cart, <<c>>)
                discount == IF strategy = "null" THEN 0
                            ELSE calculateDiscount(strategy, found.cart, c)
                due == /\ couponGate(c, now)
                       /\ alone # <<>>
                       /\ IsNum(discount)
                       /\ discount > 0
            IN  IF due
                THEN /\ Cardinality(EntriesOf(found.result, c.id)) = 1
                     /\ \A i \in EntriesOf(found.result, c.id) :
                           found.result[i].discount = discount
                ELSE EntriesOf(found.result, c.id) = {}

\* C28: discovery and application agree: with the store and the clock as the
\* discovery read them, applyCoupon on the same cart with the id of a returned
\* candidate throws no error and returns a cart whose discountedAmount is the
\* candidate's discount, and every stored coupon that applyCoupon would
\* accept for the cart has a candidate in the list.
C28_DiscoveryAgreesWithApplication ==
    found.served =>
        /\ \A i \in 1..Len(found.result) :
              LET run == applyCoupon_run(getCouponById(redis, found.result[i].id),
                                         found.cart, now)
              IN  /\ run.error = ""
                  /\ run.cart.discountedAmount = found.result[i].discount
        /\ \A id \in CouponIds :
              applyCoupon_error(getCouponById(redis, id), found.cart, now) = ""
                  => EntriesOf(found.result, id) # {}

\* a discovery over a store of an applicable and an exhausted coupon that
\* returned the applicable one with a positive discount
C28_Witness ==
    /\ found.served
    /\ Len(found.result) = 1
    /\ found.result[1].discount > 0
    /\ applyCoupon_error(getCouponById(redis, found.result[1].id), found.cart, now) = ""
    /\ \E id \in CouponIds :
          applyCoupon_error(getCouponById(redis, id), found.cart, now)
              = "usage limit exceeded"

\* C22: a cart carries at most one coupon at a time: the cart a successful
\* applyCoupon returns has the discountedAmount, subTotal and per-item fields
\* that the coupon just applied gives a cart without any discount, with no
\* leftover of a coupon applied to the cart before.
C22_OneCouponAtATime ==
    \A r \in Requests :
        (req[r].op = "applyCoupon" /\ req[r].pc = "done" /\ req[r].result = "ok") =>
            req[r].cart = applyDiscount(getStrategy(typeKey(req[r].coupon)),
                                        Pristine(req[r].cart), req[r].coupon)

\* C7: every candidate returned by findApplicableCoupons names a stored coupon
\* that is active, has no expiry or an expiry not before the evaluation time,
\* and has no usage limit or usedCount < usageLimit.
C7_CandidatesPassGate ==
    found.served =>
        \A i \in 1..Len(found.result) :
            LET c == getCouponById(redis, found.result[i].id) IN
            /\ c # NoCoupon
            /\ c.isActive = TRUE
            /\ c.expiryDate = undefined \/ c.expiryDate >= now
            /\ c.usageLimit = undefined \/ c.usedCount < c.usageLimit

\* a discovery that returned exactly one candidate from a store of three
\* coupons, one of them active but expired and another one exhausted
C7_Witness ==
    /\ found.served
    /\ Len(found.result) = 1
    /\ Cardinality(couponKeys(redis)) = 3
    /\ \E k \in couponKeys(redis) : ExpiredAt(redis[k], now) /\ redis[k].isActive
    /\ \E k \in couponKeys(redis) : Exhausted(redis[k]) /\ ~ ExpiredAt(redis[k], now)

\* C8: the list returned by findApplicableCoupons is ordered by discount
\* descending: of two adjacent candidates the earlier one's discount is >= the
\* later one's, whatever the mix of coupon types.
C8_SortedDescending ==
    found.served =>
        \A i \in 1..(Len(found.result) - 1) :
            /\ IsNum(found.result[i].discount)
            /\ IsNum(found.result[i + 1].discount)
            /\ found.result[i].discount >= found.result[i + 1].discount


\* C29: a deleted coupon stays deleted: the key coupon:<id> comes into being
\* only by createCoupon, which is no request's step; no step of an in-flight
\* updateCoupon or applyCoupon, whose existence check ran while the coupon
\* was stored, stores a coupon under a key that is absent.
C29_DeletedStaysDeleted ==
    [][ \A id \in CouponIds :
          (CouponKey(id) \notin DOMAIN redis /\ CouponKey(id) \in DOMAIN redis')
              => \A r \in Requests : req'[r] = req[r] ]_vars

\* the fields of a stored coupon other than usedCount
OtherFields(coupon) == [coupon EXCEPT !.usedCount = 0]

\* C30: a successful applyCoupon changes only the usedCount of the stored
\* coupon: the write of an application's updateCoupon leaves every other
\* field of the stored coupon as create or update last wrote it, so no update
\* that completed while the application was in flight is reverted.
C30_ApplicationWritesOnlyUsedCount ==
    [][ \A r \in Requests :
          (req[r].op = "applyCoupon" /\ req[r].pc = "set" /\ req'[r].pc = "done"
           /\ CouponKey(req[r].id) \in DOMAIN redis)
              => OtherFields(redis'[CouponKey(req[r].id)])
                   = OtherFields(redis[CouponKey(req[r].id)]) ]_vars

(***************************************************************************)
(* Listing properties                                                      *)
(***************************************************************************)
\* the coupons stored under the keys coupon:<id>
StoredCoupons == { redis[k] : k \in couponKeys(redis) }

\* C27: listing all coupons terminates for every store content, its loop
\* making no more passes than one per listed key and one more, and the list
\* it returns holds exactly the coupons stored under the keys coupon:<id>:
\* each once, none missing, and no value of another key such as a seeded
\* product
C27_ListingExactAndTerminates ==
    \A r \in Requests :
        req[r].op = "getAllCoupons" =>
            /\ req[r].iterations <= Len(req[r].keys) + 1
            /\ req[r].pc = "done" =>
                  /\ Len(req[r].coupons) = Cardinality(couponKeys(redis))
                  /\ \A k \in couponKeys(redis) :
                        \E i \in 1..Len(req[r].coupons) : req[r].coupons[i] = redis[k]
                  /\ \A i \in 1..Len(req[r].coupons) : req[r].coupons[i] \in StoredCoupons

====
